---- MODULE Spec2Model ----
(***************************************************************************)
(* Monthly performance ledger of the trade journal                         *)
(* (src/src/pages/monthly-performance.tsx): the 12 month records built     *)
(* from trades, capital changes and portfolio sizes, the YTD / rolling     *)
(* XIRR evaluations, and the two inline editors (Added/Withdrawn and       *)
(* Starting Capital) that write the capital-change store and the           *)
(* portfolio-size anchors.                                                 *)
(*                                                                         *)
(* Money is in whole currency units.  A Date is a day number; the ISO      *)
(* string a record stores is the triple <<year, month 1..12, day>>.        *)
(***************************************************************************)
EXTENDS Integers, Sequences, FiniteSets, TLC

\* ------------------------------------------------------------------ bounds
\* largest magnitude typed into an editor
MaxAmount == 1
\* rows 0..MaxEditRow of the table are clicked
MaxEditRow == 0
\* number of saves and year selections in one run of Spec
MaxOps == 2
\* number of saves and year selections in one run of SpecLedger
MaxLedgerOps == 1

\* ------------------------------------------------------- program constants
\* new Date().getFullYear()
currentYear == 2025
\* mutant: the first two months change places
monthOrder_swapped ==
  <<"Feb", "Jan", "Mar", "Apr", "May", "Jun", "Jul", "Aug", "Sep", "Oct", "Nov", "Dec">>

monthOrder ==
  <<"Jan", "Feb", "Mar", "Apr", "May", "Jun", "Jul", "Aug", "Sep", "Oct", "Nov", "Dec">>

\* monthOrder.indexOf(month): 0-based, -1 when absent
MonthIndex ==
  [name \in {monthOrder[i] : i \in 1..Len(monthOrder)} |->
     (CHOOSE i \in 1..Len(monthOrder) : monthOrder[i] = name) - 1]

indexOf(month) == IF month \in DOMAIN MonthIndex THEN MonthIndex[month] ELSE -1

\* years offered by the year picker that the model visits
Years == {currentYear - 1, currentYear}

\* ------------------------------------------------------------------- dates
\* new Date(year, monthIndex, day): monthIndex may be negative (JS wraps it
\* into the previous year)
NewDate(year, monthIndex, day) == (year * 12 + monthIndex) * 31 + (day - 1)

getFullYear(d) == (d \div 31) \div 12

getMonth(d) == (d \div 31) % 12

getDate(d) == (d % 31) + 1

\* Date.prototype.toISOString: the stored string form of a date
toISOString(d) == <<getFullYear(d), getMonth(d) + 1, getDate(d)>>

\* new Date(isoString)
ParseDate(iso) == NewDate(iso[1], iso[2] - 1, iso[3])

\* ----------------------------------------------------------------- numbers
\* values a cell of the table can hold: a number or the string '-'
Num(x) == [kind |-> "number", val |-> x]

Dash == [kind |-> "string", str |-> "-"]

\* a quotient a / b kept exact
Ratio(a, b) == [num |-> a, den |-> b]

Abs(x) == IF x < 0 THEN -x ELSE x

RECURSIVE SumSeq(_)
SumSeq(s) == IF s = <<>> THEN 0 ELSE Head(s) + SumSeq(Tail(s))

\* Array.prototype.map
Map(s, Op(_)) == [i \in 1..Len(s) |-> Op(s[i])]

\* numbers that String() and Number() convert in the model
NumRange == -60..60

NaN == [nan |-> TRUE, val |-> 0]

\* String(n)
String(n) == ToString(n)

NumberOfString ==
  [s \in {ToString(n) : n \in NumRange} |-> CHOOSE n \in NumRange : ToString(n) = s]

\* Number(s): '' is 0, a numeric string its value, anything else NaN
Number(s) ==
  IF s = "" THEN [nan |-> FALSE, val |-> 0]
  ELSE IF s \in DOMAIN NumberOfString
       THEN [nan |-> FALSE, val |-> NumberOfString[s]]
       ELSE NaN

VARIABLES
  trades,                 \* useTrades().trades
  capitalChanges,         \* useCapitalChanges().capitalChanges
  nextId,                 \* ids handed out by addCapitalChange so far
  monthlyPortfolioSizes,  \* usePortfolio().monthlyPortfolioSizes
  portfolioSize,          \* usePortfolio(): the default size
  monthlyStartingCapital, \* starting capitals held by useCapitalChanges
  legacyCapital,          \* aggregate deposits/withdrawals held by useCapitalChanges
  yearlyStartingCapital,  \* React state
  selectedYear,           \* React state
  editingCell,            \* React state
  editingValue,           \* React state
  ops,                    \* number of saves and year selections so far
  limit,                  \* how many of them the run makes
  last,                   \* the latest editor save and the state it started from
  prev,                   \* the save before it
  rendered                \* the table of an earlier render and what it was computed from

vars == <<trades, capitalChanges, nextId, monthlyPortfolioSizes, portfolioSize,
          monthlyStartingCapital, legacyCapital, yearlyStartingCapital,
          selectedYear, editingCell, editingValue, ops, limit, last, prev,
          rendered>>

\* ------------------------------------------------------- PortfolioContext
\* getPortfolioSize(month, year)
SizeIn(sizes, month, year) ==
  IF <<month, year>> \in DOMAIN sizes THEN sizes[<<month, year>>] ELSE portfolioSize

getPortfolioSize(month, year) == SizeIn(monthlyPortfolioSizes, month, year)

\* the sizes after setPortfolioSize(size, month, year)
setPortfolioSize(sizes, size, month, year) ==
  [k \in DOMAIN sizes \cup {<<month, year>>} |->
     IF k = <<month, year>> THEN size ELSE sizes[k]]

KeyOrd(k) == k[2] * 12 + indexOf(k[1])

\* getLatestPortfolioSize() over the given sizes
LatestOf(sizes) ==
  IF DOMAIN sizes = {} THEN portfolioSize
  ELSE sizes[CHOOSE k \in DOMAIN sizes : \A j \in DOMAIN sizes : KeyOrd(j) <= KeyOrd(k)]

getLatestPortfolioSize == LatestOf(monthlyPortfolioSizes)

\* ------------------------------------------------------ useCapitalChanges
signedAmount(change) == IF change.type = "deposit" THEN change.amount ELSE -change.amount

\* updateCapitalChange(change): replaces the record with the same id
updateCapitalChange(changes, change) ==
  [i \in 1..Len(changes) |-> IF changes[i].id = change.id THEN change ELSE changes[i]]

\* addCapitalChange(change): appends it under a fresh id
addCapitalChange(changes, id, change) ==
  Append(changes, [id |-> id, date |-> change.date, amount |-> change.amount,
                   type |-> change.type, description |-> change.description])

\* deleteCapitalChange(id)
deleteCapitalChange(changes, id) == SelectSeq(changes, LAMBDA c : c.id # id)

ChangesIn(changes, month, year) ==
  SelectSeq(changes, LAMBDA c : getMonth(ParseDate(c.date)) = indexOf(month)
                                /\ getFullYear(ParseDate(c.date)) = year)

TradesIn(month, year) ==
  SelectSeq(trades, LAMBDA t : getMonth(ParseDate(t.date)) = indexOf(month)
                               /\ getFullYear(ParseDate(t.date)) = year)

\* realized P/L of a month: Closed and Partial trades only
RealizedPL(month, year) ==
  SumSeq(Map(SelectSeq(TradesIn(month, year),
                       LAMBDA t : t.positionStatus \in {"Closed", "Partial"}),
             LAMBDA t : t.plRs))

\* the MonthlyCapitalRecord of one month, over the given store
MonthlyCapitalRecord(changes, month, year) ==
  LET own == ChangesIn(changes, month, year)
      k == <<month, year>>
      sc == IF k \in DOMAIN monthlyStartingCapital THEN monthlyStartingCapital[k] ELSE 0
      dep == IF Len(own) > 0
             THEN SumSeq(Map(SelectSeq(own, LAMBDA c : c.type = "deposit"),
                             LAMBDA c : c.amount))
             ELSE IF k \in DOMAIN legacyCapital THEN legacyCapital[k].deposits ELSE 0
      wd == IF Len(own) > 0
            THEN SumSeq(Map(SelectSeq(own, LAMBDA c : c.type = "withdrawal"),
                            LAMBDA c : c.amount))
            ELSE IF k \in DOMAIN legacyCapital THEN legacyCapital[k].withdrawals ELSE 0
      pl == RealizedPL(month, year)
  IN [month |-> month, year |-> year, startingCapital |-> sc, deposits |-> dep,
      withdrawals |-> wd, pl |-> pl, finalCapital |-> sc + pl + dep - wd]

\* months the hook has a record for: those with a trade, a capital change, a
\* starting capital or an aggregate
HasRecord(changes, k) ==
  \/ Len(TradesIn(k[1], k[2])) > 0
  \/ Len(ChangesIn(changes, k[1], k[2])) > 0
  \/ k \in DOMAIN monthlyStartingCapital
  \/ k \in DOMAIN legacyCapital

FirstYear == CHOOSE y \in Years : \A z \in Years : y <= z

ChronologicalKeys ==
  [i \in 1..(12 * Cardinality(Years)) |->
     <<monthOrder[((i - 1) % 12) + 1], FirstYear + ((i - 1) \div 12)>>]

\* useCapitalChanges().monthlyCapital, oldest month first
monthlyCapital ==
  Map(SelectSeq(ChronologicalKeys, LAMBDA k : HasRecord(capitalChanges, k)),
      LAMBDA k : MonthlyCapitalRecord(capitalChanges, k[1], k[2]))

\* ------------------------------------------------------------- calcXIRR
\* The cash-flow series of one evaluation: the negated start value, the
\* interim events, the end value.
CashFlows(startDate, startValue, endDate, endValue, events) ==
  <<[date |-> startDate, amount |-> -startValue]>> \o events
    \o <<[date |-> endDate, amount |-> endValue]>>

Sign(x) == IF x > 0 THEN 1 ELSE IF x < 0 THEN -1 ELSE 0

\* mutant: no degenerate case, the direction of the net gain always
calcXIRR_netGainOnly(startDate, startValue, endDate, endValue, events) ==
  Sign(SumSeq(Map(CashFlows(startDate, startValue, endDate, endValue, events),
                  LAMBDA f : f.amount)))

\* calcXIRR(startDate, startValue, endDate, endValue, events).  The rate is
\* kept as its direction only: 0 for the degenerate series (no sign change,
\* a zero boundary value, no elapsed time), else the sign of the
\* undiscounted net gain.
calcXIRR(startDate, startValue, endDate, endValue, events) ==
  LET flows == CashFlows(startDate, startValue, endDate, endValue, events)
      n == Len(flows)
  IN IF \/ \A i \in 1..n : flows[i].amount >= 0
        \/ \A i \in 1..n : flows[i].amount <= 0
     THEN 0
     ELSE IF startValue = 0 \/ endValue = 0 THEN 0
     ELSE IF \A i \in 1..n : flows[i].date = startDate THEN 0
     ELSE Sign(SumSeq(Map(flows, LAMBDA f : f.amount)))

\* ------------------------------------------------------ initialMonthlyData
Rows == 0..11

\* monthlyCapital.filter(mc => mc.year === selectedYear).find(mc => mc.month === month)
\* or the all-zero default record
\* (monthlyCapital holds at most one record per month and year)
monthCapitalOf(month) ==
  IF HasRecord(capitalChanges, <<month, selectedYear>>)
  THEN MonthlyCapitalRecord(capitalChanges, month, selectedYear)
  ELSE [month |-> month, year |-> selectedYear, startingCapital |-> 0,
        deposits |-> 0, withdrawals |-> 0, pl |-> 0, finalCapital |-> 0]

\* trades of the selected year grouped under the month (every status)
monthTradesOf(month) == TradesIn(month, selectedYear)

\* mutant: no aggregate is read when the store has no record of the month
netAddedWithdrawnOf_noFallback(month) ==
  SumSeq(Map(ChangesIn(capitalChanges, month, selectedYear), signedAmount))

\* net added/withdrawn of a month: the store's records of the month, else the
\* hook record's aggregate
netAddedWithdrawnOf(month) ==
  LET monthCapitalChanges == ChangesIn(capitalChanges, month, selectedYear)
      monthCapital == monthCapitalOf(month)
  IN IF Len(monthCapitalChanges) = 0
     THEN monthCapital.deposits - monthCapital.withdrawals
     ELSE SumSeq(Map(monthCapitalChanges, signedAmount))

\* mutant: the looked-up size whatever the hook's record says
adjustedStartingCapitalOf_lookupOnly(month) == getPortfolioSize(month, selectedYear)

\* monthCapital.startingCapital || getPortfolioSize(month, selectedYear)
adjustedStartingCapitalOf(month) ==
  LET monthCapital == monthCapitalOf(month)
  IN IF monthCapital.startingCapital # 0 THEN monthCapital.startingCapital
     ELSE getPortfolioSize(month, selectedYear)

\* the finalCapital field of the row
rowFinalCapitalOf(month) ==
  IF Len(monthTradesOf(month)) > 0 THEN monthCapitalOf(month).finalCapital ELSE 0

\* mutant: a month without trades shows the number
statOf_alwaysNumber(tradesCount, value) == Num(value)

\* a trade-count-dependent statistic: its value with trades, '-' without
statOf(tradesCount, value) == IF tradesCount > 0 THEN Num(value) ELSE Dash

initialMonthlyRow(i) ==
  LET month == monthOrder[i + 1]
      monthTrades == monthTradesOf(month)
      tradesCount == Len(monthTrades)
      winTrades == SelectSeq(monthTrades, LAMBDA t : t.plRs > 0)
      lossTrades == SelectSeq(monthTrades, LAMBDA t : t.plRs < 0)
      winPercentage == IF tradesCount > 0
                       THEN Ratio(Len(winTrades) * 100, tradesCount) ELSE Ratio(0, 1)
      avgGain == IF Len(winTrades) > 0
                 THEN Ratio(SumSeq(Map(winTrades, LAMBDA t : t.stockMove)), Len(winTrades))
                 ELSE Ratio(0, 1)
      avgLoss == IF Len(lossTrades) > 0
                 THEN Ratio(SumSeq(Map(lossTrades, LAMBDA t : t.stockMove)), Len(lossTrades))
                 ELSE Ratio(0, 1)
      avgRR == IF tradesCount > 0
               THEN Ratio(SumSeq(Map(monthTrades, LAMBDA t : t.rewardRisk)), tradesCount)
               ELSE Ratio(0, 1)
      avgHoldingDays == IF tradesCount > 0
                        THEN Ratio(SumSeq(Map(monthTrades, LAMBDA t : t.holdingDays)), tradesCount)
                        ELSE Ratio(0, 1)
      monthCapital == monthCapitalOf(month)
  IN [month |-> month,
      addedWithdrawn |-> netAddedWithdrawnOf(month),
      startingCapital |-> adjustedStartingCapitalOf(month),
      pl |-> statOf(tradesCount, monthCapital.pl),
      plPercentage |-> statOf(tradesCount, 0),
      finalCapital |-> rowFinalCapitalOf(month),
      trades |-> statOf(tradesCount, tradesCount),
      winPercentage |-> statOf(tradesCount, winPercentage),
      avgGain |-> statOf(tradesCount, avgGain),
      avgLoss |-> statOf(tradesCount, avgLoss),
      avgRR |-> statOf(tradesCount, avgRR),
      avgHoldingDays |-> statOf(tradesCount, avgHoldingDays),
      cagr |-> 0, rollingReturn1M |-> 0, rollingReturn3M |-> 0,
      rollingReturn6M |-> 0, rollingReturn12M |-> 0]

initialMonthlyData == [i \in Rows |-> initialMonthlyRow(i)]

\* ------------------------------------------------------------ computedData
Windows == {1, 3, 6, 12}

NoCall == [called |-> FALSE]

XirrCall(startDate, startValue, endDate, endValue, events) ==
  [called |-> TRUE, startDate |-> startDate, startValue |-> startValue,
   endDate |-> endDate, endValue |-> endValue, events |-> events]

\* the value a (possibly skipped) evaluation reports
Reported(call) ==
  IF call.called
  THEN calcXIRR(call.startDate, call.startValue, call.endDate, call.endValue, call.events)
  ELSE 0

\* mutant: the date moves on while a value is being typed
currentDateOf_readsEditor(i) ==
  NewDate(selectedYear, i + (IF editingValue = "" THEN 0 ELSE 1), 1)

\* new Date(currentYear, monthIndex, 1)
currentDateOf(i) == NewDate(selectedYear, i, 1)

\* capital changes dated on or before the first day of the row's month
relevantChangesOf(i) ==
  Map(SelectSeq(capitalChanges, LAMBDA c : ParseDate(c.date) <= currentDateOf(i)),
      LAMBDA c : [date |-> ParseDate(c.date), amount |-> signedAmount(c)])

\* the YTD evaluation of row i
ytdCallOf(i) ==
  IF adjustedStartingCapitalOf(monthOrder[i + 1]) # 0
  THEN XirrCall(NewDate(selectedYear, 0, 1), yearlyStartingCapital, currentDateOf(i),
                rowFinalCapitalOf(monthOrder[i + 1]), relevantChangesOf(i))
  ELSE NoCall

\* mutant: every window starts one row late
windowThreshold_oneLate(k) == k + 1

\* the literal each window compares the row index with: i > 0, i >= 2,
\* i >= 5, i >= 11
windowThreshold(k) == IF k = 1 THEN 1 ELSE k - 1

\* mutant: the window starts at the row its threshold names
lookbackIndex_fromThreshold(i, k) == i - (k - 1)

\* the index of the row a k-month window starts from
lookbackIndex(i, k) == i - k

\* the rolling k-month evaluation of row i
rollingCallOf(i, k) ==
  LET j == lookbackIndex(i, k)
      start == NewDate(selectedYear, i - k, 1)
  IN IF i >= windowThreshold(k) /\ j \in Rows
     THEN XirrCall(start, rowFinalCapitalOf(monthOrder[j + 1]), currentDateOf(i),
                   rowFinalCapitalOf(monthOrder[i + 1]),
                   SelectSeq(relevantChangesOf(i), LAMBDA c : c.date >= start))
     ELSE NoCall

\* the rolling k-month return of row i (xirr1M, xirr3M, xirr6M, xirr12M)
rollingReturnOf(i, k) == Reported(rollingCallOf(i, k))

computedRow(i) ==
  LET row == initialMonthlyData[i]
  IN [row EXCEPT
       !.plPercentage = IF row.pl.kind = "number" /\ row.startingCapital # 0
                        THEN Num(Ratio(row.pl.val * 100, row.startingCapital)) ELSE Dash,
       !.cagr = Reported(ytdCallOf(i)),
       !.rollingReturn1M = rollingReturnOf(i, 1),
       !.rollingReturn3M = rollingReturnOf(i, 3),
       !.rollingReturn6M = rollingReturnOf(i, 6),
       !.rollingReturn12M = rollingReturnOf(i, 12)]

computedData == [i \in Rows |-> computedRow(i)]

\* --------------------------------------------------------------- rendering
\* the values the table is computed from
LedgerInputs ==
  <<trades, capitalChanges, monthlyPortfolioSizes, portfolioSize, selectedYear>>

\* a run that does not keep the rendered table
NotTracked == [tracked |-> FALSE]

\* the table this render computes, with the inputs it reads
Rendered == [tracked |-> TRUE, inputs |-> LedgerInputs, data |-> computedData]

\* every handler runs in a render of the table; the table is kept from the
\* first render that read the present inputs
Render ==
  rendered' = IF rendered.tracked /\ rendered.inputs # LedgerInputs
              THEN Rendered ELSE rendered

\* ---------------------------------------------------------------- editors
Null == [row |-> -1, col |-> "null"]

Cell(row, col) == [row |-> row, col |-> col]

EditRows == 0..MaxEditRow

\* what the user types into an editor
TypedStrings == {"", "x"} \cup {String(n) : n \in (-MaxAmount)..MaxAmount}

NoOp ==
  [op |-> "none", row |-> 0, month |-> "", year |-> 0, nan |-> FALSE, value |-> 0,
   startingCapital |-> 0, outcome |-> "none", changes |-> <<>>,
   sizes |-> [k \in {} |-> 0]]

\* mutant: the first capital change of the calendar month, of any year
existingChangeOf_anyYear(changes, monthIndex, year) ==
  LET found == SelectSeq(changes, LAMBDA c : getMonth(ParseDate(c.date)) = monthIndex)
  IN IF Len(found) > 0 THEN <<found[1]>> ELSE <<>>

\* the first capital change of the month and year, as a sequence of 0 or 1
existingChangeOf(changes, monthIndex, year) ==
  LET found == SelectSeq(changes, LAMBDA c : getFullYear(ParseDate(c.date)) = year
                                             /\ getMonth(ParseDate(c.date)) = monthIndex)
  IN IF Len(found) > 0 THEN <<found[1]>> ELSE <<>>

\* the edited value the Added/Withdrawn editor opens with (the effect that
\* runs when editingCell moves to a new addedWithdrawn cell)
prefillOf(prevCell, cell, clicked) ==
  IF cell.col = "addedWithdrawn" /\ (prevCell.row # cell.row \/ prevCell.col # cell.col)
  THEN LET month == monthOrder[cell.row + 1]
           found == SelectSeq(ChronologicalKeys,
                              LAMBDA k : k[1] = month /\ HasRecord(capitalChanges, k))
           year == IF Len(found) > 0 THEN found[1][2] ELSE currentYear
           existing == existingChangeOf(capitalChanges, indexOf(month), year)
       IN IF Len(existing) > 0 THEN String(signedAmount(existing[1])) ELSE ""
  ELSE clicked

\* click on the Added/Withdrawn cell of a row
ClickAddedWithdrawn(row) ==
  /\ editingCell = Null
  /\ ops < limit
  /\ LET numValue == netAddedWithdrawnOf(monthOrder[row + 1])
         cell == Cell(row, "addedWithdrawn")
     IN /\ editingCell' = cell
        /\ editingValue' = prefillOf(editingCell, cell,
                                     IF numValue = 0 THEN "" ELSE String(numValue))
  /\ UNCHANGED <<trades, capitalChanges, nextId, monthlyPortfolioSizes, portfolioSize,
                 monthlyStartingCapital, legacyCapital, yearlyStartingCapital,
                 selectedYear, ops, limit, last, prev>>
  /\ Render

\* click on the Starting Capital cell of a row
ClickStartingCapital(row) ==
  /\ editingCell = Null
  /\ ops < limit
  /\ editingCell' = Cell(row, "startingCapital")
  /\ editingValue' = String(adjustedStartingCapitalOf(monthOrder[row + 1]))
  /\ UNCHANGED <<trades, capitalChanges, nextId, monthlyPortfolioSizes, portfolioSize,
                 monthlyStartingCapital, legacyCapital, yearlyStartingCapital,
                 selectedYear, ops, limit, last, prev>>
  /\ Render

\* onChange of the open editor
TypeValue(s) ==
  /\ editingCell # Null
  /\ editingValue # s
  /\ editingValue' = s
  /\ UNCHANGED <<trades, capitalChanges, nextId, monthlyPortfolioSizes, portfolioSize,
                 monthlyStartingCapital, legacyCapital, yearlyStartingCapital,
                 selectedYear, editingCell, ops, limit, last, prev>>
  /\ Render

\* Escape in the open editor
Escape ==
  /\ editingCell # Null
  /\ editingCell' = Null
  /\ editingValue' = ""
  /\ UNCHANGED <<trades, capitalChanges, nextId, monthlyPortfolioSizes, portfolioSize,
                 monthlyStartingCapital, legacyCapital, yearlyStartingCapital,
                 selectedYear, ops, limit, last, prev>>
  /\ Render

\* the year picker
SelectYear(y) ==
  /\ editingCell = Null
  /\ ops < limit
  /\ selectedYear # y
  /\ selectedYear' = y
  /\ ops' = ops + 1
  /\ UNCHANGED <<trades, capitalChanges, nextId, monthlyPortfolioSizes, portfolioSize,
                 monthlyStartingCapital, legacyCapital, yearlyStartingCapital,
                 editingCell, editingValue, limit, last, prev>>
  /\ Render

\* mutant: a starting capital of 0 passes the check
startingCapitalUnset_zeroPasses(startingCapital) == startingCapital < 0

\* typeof startingCapital !== 'number' || startingCapital <= 0
startingCapitalUnset(startingCapital) == startingCapital <= 0

\* mutant: the old amount is not taken back out
resizedPortfolio_keepsOld(currentPortfolioSize, oldAmount, newAmount) ==
  currentPortfolioSize + newAmount

\* mutant: an edited record leaves the size as it was
resizedPortfolio_ignoresDifference(currentPortfolioSize, oldAmount, newAmount) ==
  currentPortfolioSize

\* currentPortfolioSize + (newAmount - oldAmount)
resizedPortfolio(currentPortfolioSize, oldAmount, newAmount) ==
  currentPortfolioSize + (newAmount - oldAmount)

\* mutant: the record keeps the date it had
editedChange_keepsDate(existingChange, value, formattedDate) ==
  [existingChange EXCEPT !.amount = Abs(value),
                         !.type = IF value >= 0 THEN "deposit" ELSE "withdrawal",
                         !.description = "Manual edit from performance table"]

\* mutant: the record keeps the type it had
editedChange_keepsType(existingChange, value, formattedDate) ==
  [existingChange EXCEPT !.amount = Abs(value),
                         !.date = formattedDate,
                         !.description = "Manual edit from performance table"]

\* the record updateCapitalChange receives
editedChange(existingChange, value, formattedDate) ==
  [existingChange EXCEPT !.amount = Abs(value),
                         !.type = IF value >= 0 THEN "deposit" ELSE "withdrawal",
                         !.date = formattedDate,
                         !.description = "Manual edit from performance table"]

\* mutant: the amount keeps the sign of the value
createdChange_signedAmount(value, formattedDate) ==
  [amount |-> value, type |-> IF value >= 0 THEN "deposit" ELSE "withdrawal",
   date |-> formattedDate, description |-> "Manual edit from performance table"]

\* mutant: the created record is a deposit whatever the sign of the value
createdChange_alwaysDeposit(value, formattedDate) ==
  [amount |-> Abs(value), type |-> "deposit",
   date |-> formattedDate, description |-> "Manual edit from performance table"]

\* the record addCapitalChange receives
createdChange(value, formattedDate) ==
  [amount |-> Abs(value), type |-> IF value >= 0 THEN "deposit" ELSE "withdrawal",
   date |-> formattedDate, description |-> "Manual edit from performance table"]

\* handleSaveAddedWithdrawn(rowIndex, month, year) with editingValue = text:
\* the store, sizes and editor state it leaves
saveAddedWithdrawn(rowIndex, text) ==
  LET value == Number(text)
      month == monthOrder[rowIndex + 1]
      monthIndex == indexOf(month)
      year == selectedYear
      startingCapital == adjustedStartingCapitalOf(month)
      formattedDate == toISOString(NewDate(year, monthIndex, 1))
      existing == existingChangeOf(capitalChanges, monthIndex, year)
      currentPortfolioSize == getPortfolioSize(month, year)
      same == [changes |-> capitalChanges, sizes |-> monthlyPortfolioSizes,
               nextId |-> nextId, cell |-> editingCell, text |-> editingValue,
               outcome |-> "ignored"]
  IN IF value.nan \/ monthIndex = -1 THEN same
     ELSE IF startingCapitalUnset(startingCapital)
     THEN [same EXCEPT !.cell = Cell(rowIndex, "startingCapital"), !.text = "",
                       !.outcome = "rejected"]
     ELSE IF Len(existing) > 0
     THEN [same EXCEPT
             !.sizes = setPortfolioSize(monthlyPortfolioSizes,
                         resizedPortfolio(currentPortfolioSize,
                                          signedAmount(existing[1]), value.val),
                         month, year),
             !.changes = updateCapitalChange(capitalChanges,
                           editedChange(existing[1], value.val, formattedDate)),
             !.cell = Null, !.text = "", !.outcome = "updated"]
     ELSE IF value.val # 0
     THEN [same EXCEPT
             !.sizes = setPortfolioSize(monthlyPortfolioSizes,
                                        currentPortfolioSize + value.val, month, year),
             !.changes = addCapitalChange(capitalChanges, nextId,
                                          createdChange(value.val, formattedDate)),
             !.nextId = nextId + 1,
             !.cell = Null, !.text = "", !.outcome = "added"]
     ELSE IF value.val = 0 /\ Len(existing) > 0
     THEN [same EXCEPT
             !.sizes = setPortfolioSize(monthlyPortfolioSizes,
                         currentPortfolioSize - signedAmount(existing[1]), month, year),
             !.changes = deleteCapitalChange(capitalChanges, existing[1].id),
             !.cell = Null, !.text = "", !.outcome = "deleted"]
     ELSE [same EXCEPT !.cell = Null, !.text = "", !.outcome = "unchanged"]

\* blur, Enter or the check button of the Added/Withdrawn editor
HandleSaveAddedWithdrawn ==
  /\ editingCell # Null
  /\ editingCell.col = "addedWithdrawn"
  /\ ops < limit
  /\ LET r == saveAddedWithdrawn(editingCell.row, editingValue)
         value == Number(editingValue)
     IN /\ capitalChanges' = r.changes
        /\ monthlyPortfolioSizes' = r.sizes
        /\ nextId' = r.nextId
        /\ editingCell' = r.cell
        /\ editingValue' = r.text
        /\ yearlyStartingCapital' = LatestOf(r.sizes)
        /\ last' = [op |-> "setNetChange", row |-> editingCell.row,
                    month |-> monthOrder[editingCell.row + 1],
                    year |-> selectedYear, nan |-> value.nan, value |-> value.val,
                    startingCapital |-> adjustedStartingCapitalOf(monthOrder[editingCell.row + 1]),
                    outcome |-> r.outcome, changes |-> capitalChanges,
                    sizes |-> monthlyPortfolioSizes]
  /\ prev' = last
  /\ ops' = ops + 1
  /\ UNCHANGED <<trades, portfolioSize, monthlyStartingCapital, legacyCapital,
                 selectedYear, limit>>
  /\ Render

\* !isNaN(val) && val >= 0
startingCapitalAccepted(val) == ~val.nan /\ val.val >= 0

\* blur, Enter or the check button of the Starting Capital editor
HandleSaveStartingCapital ==
  /\ editingCell # Null
  /\ editingCell.col = "startingCapital"
  /\ ops < limit
  /\ LET val == Number(editingValue)
         month == monthOrder[editingCell.row + 1]
         sizes == IF startingCapitalAccepted(val)
                  THEN setPortfolioSize(monthlyPortfolioSizes, val.val, month, selectedYear)
                  ELSE monthlyPortfolioSizes
     IN /\ monthlyPortfolioSizes' = sizes
        /\ yearlyStartingCapital' = LatestOf(sizes)
        /\ last' = [op |-> "setStartingCapital", row |-> editingCell.row,
                    month |-> month, year |-> selectedYear, nan |-> val.nan,
                    value |-> val.val,
                    startingCapital |-> adjustedStartingCapitalOf(month),
                    outcome |-> IF startingCapitalAccepted(val) THEN "written" ELSE "ignored",
                    changes |-> capitalChanges, sizes |-> monthlyPortfolioSizes]
  /\ editingCell' = Null
  /\ editingValue' = ""
  /\ prev' = last
  /\ ops' = ops + 1
  /\ UNCHANGED <<trades, capitalChanges, nextId, portfolioSize, monthlyStartingCapital,
                 legacyCapital, selectedYear, limit>>
  /\ Render

\* ------------------------------------------------------------ initial data
Trade(iso, status, plRs, stockMove, rewardRisk, holdingDays) ==
  [date |-> iso, positionStatus |-> status, plRs |-> plRs, stockMove |-> stockMove,
   rewardRisk |-> rewardRisk, holdingDays |-> holdingDays]

TradesA ==
  << Trade(<<currentYear, 1, 15>>, "Closed", 2, 5, 2, 3),
     Trade(<<currentYear, 2, 10>>, "Open", -1, -2, 1, 4),
     Trade(<<currentYear, 2, 20>>, "Closed", 1, 3, 2, 5),
     Trade(<<currentYear, 3, 3>>, "Closed", 2, 2, 2, 2) >>

TradesB ==
  << Trade(<<currentYear - 1, 1, 20>>, "Partial", -1, -3, 1, 2),
     Trade(<<currentYear, 1, 5>>, "Closed", 2, 4, 3, 1),
     Trade(<<currentYear, 1, 25>>, "Closed", -1, -2, 1, 6),
     Trade(<<currentYear, 4, 2>>, "Closed", 1, 2, 2, 2) >>

Change(id, iso, amount, type) ==
  [id |-> id, date |-> iso, amount |-> amount, type |-> type, description |-> "initial"]

StoreEmpty == <<>>

\* one deposit dated inside January
StoreMidMonth == << Change(1, <<currentYear, 1, 15>>, 1, "deposit") >>

\* a withdrawal of the year before, two deposits in January and one in
\* February
StoreHistory ==
  << Change(1, <<currentYear - 1, 1, 1>>, 1, "withdrawal"),
     Change(2, <<currentYear, 1, 1>>, 1, "deposit"),
     Change(3, <<currentYear, 1, 15>>, 2, "deposit"),
     Change(4, <<currentYear, 2, 1>>, 1, "deposit") >>

\* what the hook holds besides the store: starting capitals and aggregates
HookEmpty ==
  [startingCapital |-> [k \in {} |-> 0],
   aggregate |-> [k \in {} |-> [deposits |-> 0, withdrawals |-> 0]]]

HookStartingCapital ==
  [startingCapital |-> [k \in {<<"Jan", currentYear>>} |-> 2],
   aggregate |-> [k \in {} |-> [deposits |-> 0, withdrawals |-> 0]]]

HookAggregate ==
  [startingCapital |-> [k \in {} |-> 0],
   aggregate |-> [k \in {<<"Jan", currentYear>>} |-> [deposits |-> 1, withdrawals |-> 0]]]

InitialData ==
  { [trades |-> TradesA, store |-> StoreEmpty, hook |-> HookEmpty, size |-> 0],
    [trades |-> TradesA, store |-> StoreEmpty, hook |-> HookEmpty, size |-> 1],
    [trades |-> TradesA, store |-> StoreMidMonth, hook |-> HookStartingCapital, size |-> 1],
    [trades |-> TradesA, store |-> StoreEmpty, hook |-> HookAggregate, size |-> 1],
    [trades |-> TradesB, store |-> StoreMidMonth, hook |-> HookEmpty, size |-> 1],
    [trades |-> TradesB, store |-> StoreHistory, hook |-> HookEmpty, size |-> 1],
    [trades |-> TradesB, store |-> StoreHistory, hook |-> HookStartingCapital, size |-> 0] }

InitData ==
  /\ \E d \in InitialData :
       /\ trades = d.trades
       /\ capitalChanges = d.store
       /\ portfolioSize = d.size
       /\ monthlyStartingCapital = d.hook.startingCapital
       /\ legacyCapital = d.hook.aggregate
  /\ nextId = Len(capitalChanges) + 1
  /\ monthlyPortfolioSizes = [k \in {} |-> 0]
  /\ yearlyStartingCapital = portfolioSize
  /\ selectedYear = currentYear
  /\ editingCell = Null
  /\ editingValue = ""
  /\ ops = 0
  /\ last = NoOp
  /\ prev = NoOp

Init == InitData /\ limit = MaxOps /\ rendered = NotTracked

InitLedger == InitData /\ limit = MaxLedgerOps /\ rendered = Rendered

\* portfolio sizes stored by earlier sessions: one of the same calendar
\* month a year before, one of a later month of the current year
SizesEarlier ==
  [k \in {<<"Jan", currentYear - 1>>, <<"Feb", currentYear>>} |->
     IF k[2] = currentYear THEN 3 ELSE 2]

\* the table opened over a context that already holds monthly sizes
InitAnchors ==
  /\ \E d \in InitialData :
       /\ trades = d.trades
       /\ capitalChanges = d.store
       /\ portfolioSize = d.size
       /\ monthlyStartingCapital = d.hook.startingCapital
       /\ legacyCapital = d.hook.aggregate
  /\ nextId = Len(capitalChanges) + 1
  /\ monthlyPortfolioSizes = SizesEarlier
  /\ yearlyStartingCapital = LatestOf(SizesEarlier)
  /\ selectedYear = currentYear
  /\ editingCell = Null
  /\ editingValue = ""
  /\ ops = 0
  /\ last = NoOp
  /\ prev = NoOp
  /\ limit = MaxOps
  /\ rendered = NotTracked

Next ==
  \/ \E row \in EditRows : ClickAddedWithdrawn(row)
  \/ \E row \in EditRows : ClickStartingCapital(row)
  \/ \E s \in TypedStrings : TypeValue(s)
  \/ Escape
  \/ \E y \in Years : SelectYear(y)
  \/ HandleSaveAddedWithdrawn
  \/ HandleSaveStartingCapital

Spec == Init /\ [][Next]_vars

\* the same table over fewer operations, for the properties of the month
\* records and of the XIRR evaluations computed from a given state
SpecLedger == InitLedger /\ [][Next]_vars

\* the runs of SpecLedger, named apart for the properties of the XIRR
\* evaluations and of the rendered table
SpecReturns == InitLedger /\ [][Next]_vars

\* the table over stored monthly sizes, for the properties of the anchors
SpecAnchors == InitAnchors /\ [][Next]_vars

\* ------------------------------------------------------------------ claims
RowMonth(i) == monthOrder[i + 1]

\* the latest save was handleSaveAddedWithdrawn with a numeric value
LastIsNetChange == last.op = "setNetChange" /\ ~last.nan

\* ... and it passed the starting-capital check
LastNetChangeAccepted == LastIsNetChange /\ last.startingCapital > 0

\* C1: every one of the 12 month records satisfies
\* finalCapital = startingCapital + realizedPL + net added/withdrawn.
C1_LedgerIdentity ==
  \A i \in Rows :
    LET row == initialMonthlyRow(i)
    IN row.finalCapital =
         row.startingCapital + RealizedPL(row.month, selectedYear) + row.addedWithdrawn

\* C2: a setNetChange on a month whose resolved starting capital is not
\* strictly positive changes neither the CapitalChange store nor any
\* portfolio-size anchor.
C2_RejectedEditMutatesNothing ==
  (last.op = "setNetChange" /\ last.startingCapital <= 0)
    => /\ capitalChanges = last.changes
       /\ monthlyPortfolioSizes = last.sizes

\* a non-zero edit was typed into a month without positive starting capital
\* and saved
C2_Witness ==
  /\ LastIsNetChange
  /\ last.startingCapital <= 0
  /\ last.value # 0
  /\ last.outcome = "rejected"

\* C3: an accepted setNetChange(m, y, 0) on a month that has a CapitalChange
\* removes that record from the store.
C3_ZeroDeletesRecord ==
  (LastNetChangeAccepted /\ last.value = 0)
    => LET existing == existingChangeOf(last.changes, indexOf(last.month), last.year)
       IN Len(existing) > 0
            => \A j \in 1..Len(capitalChanges) : capitalChanges[j].id # existing[1].id

\* C4: from a month with no CapitalChange and positive starting capital,
\* setNetChange(m, y, v) with v # 0 followed by setNetChange(m, y, 0) leaves
\* the (m, y) anchor at its value before the first edit.
C4_RoundTripRestoresAnchor ==
  ( /\ prev.op = "setNetChange" /\ ~prev.nan /\ prev.value # 0
    /\ prev.startingCapital > 0
    /\ Len(existingChangeOf(prev.changes, indexOf(prev.month), prev.year)) = 0
    /\ LastIsNetChange /\ last.value = 0
    /\ last.month = prev.month /\ last.year = prev.year )
    => getPortfolioSize(last.month, last.year) = SizeIn(prev.sizes, prev.month, prev.year)

\* C5: two setNetChange(m, y, v) calls in a row leave the same store and the
\* same anchors as the first one alone.
C5_Idempotent ==
  ( /\ prev.op = "setNetChange" /\ ~prev.nan
    /\ LastIsNetChange
    /\ last.month = prev.month /\ last.year = prev.year /\ last.value = prev.value )
    => /\ capitalChanges = last.changes
       /\ monthlyPortfolioSizes = last.sizes

\* the same non-zero value was saved twice in a row, the first save creating
\* or changing the record
C5_Witness ==
  /\ prev.op = "setNetChange" /\ ~prev.nan /\ prev.value # 0
  /\ prev.outcome \in {"added", "updated"}
  /\ last.changes # prev.changes
  /\ LastNetChangeAccepted
  /\ last.month = prev.month /\ last.year = prev.year /\ last.value = prev.value

\* C6: a month with zero trades has finalCapital = startingCapital + deposits
\* - withdrawals.
C6_NoTradeMonthFinalCapital ==
  \A i \in Rows :
    LET row == initialMonthlyRow(i)
    IN Len(monthTradesOf(row.month)) = 0
         => row.finalCapital = row.startingCapital + row.addedWithdrawn

TradeStats(row) ==
  <<row.trades, row.winPercentage, row.avgGain, row.avgLoss, row.avgRR, row.avgHoldingDays>>

\* C7: trade count, win percentage, average gain, average loss, average R:R
\* and average holding days of a row are '-' exactly when the month has no
\* trade in the selected year, and numbers otherwise.
C7_StatsNotApplicableIffNoTrades ==
  \A i \in Rows :
    LET row == initialMonthlyRow(i)
        n == Len(monthTradesOf(row.month))
    IN /\ n = 0 => \A x \in 1..6 : TradeStats(row)[x] = Dash
       /\ n > 0 => \A x \in 1..6 : TradeStats(row)[x].kind = "number"

\* the table shows a month without trades next to a month with trades
C7_Witness ==
  /\ \E i \in Rows : initialMonthlyRow(i).trades = Dash
  /\ \E i \in Rows : initialMonthlyRow(i).trades = Num(2)
  /\ \E i \in Rows : initialMonthlyRow(i).winPercentage = Num(Ratio(100, 2))

\* C8: the rolling k-month return of month m is 0 whenever m - k < 0.
C8_InsufficientHistoryIsZero ==
  \A i \in Rows : \A k \in Windows :
    i - k < 0 => rollingReturnOf(i, k) = 0

\* a window with enough history reports a return while the windows of the
\* same table without enough history report 0
C8_Witness ==
  /\ \E i \in Rows : \E k \in Windows : i - k >= 0 /\ rollingReturnOf(i, k) # 0
  /\ rollingReturnOf(2, 3) = 0
  /\ rowFinalCapitalOf(RowMonth(2)) # 0

EvaluationsOf(i) == {ytdCallOf(i)} \cup {rollingCallOf(i, k) : k \in Windows}

\* C9: every interim event of every XIRR evaluation is dated within the
\* evaluation's [start, end].
C9_EventsWithinBoundaries ==
  \A i \in Rows : \A call \in EvaluationsOf(i) :
    call.called
      => \A e \in 1..Len(call.events) :
           /\ call.startDate <= call.events[e].date
           /\ call.events[e].date <= call.endDate

\* C10: every portfolio size written by the editors is strictly positive.
C10_WrittenSizesPositive ==
  \A k \in DOMAIN monthlyPortfolioSizes : monthlyPortfolioSizes[k] > 0

\* the calendar order the month records are required to come in
CalendarMonths ==
  <<"Jan", "Feb", "Mar", "Apr", "May", "Jun", "Jul", "Aug", "Sep", "Oct", "Nov", "Dec">>

\* C11: the ledger output is exactly 12 month records, January to December in
\* calendar order, one per month, whatever the selected year holds.
C11_TwelveMonthsInOrder ==
  /\ Rows = 0..11
  /\ \A i \in 0..11 : initialMonthlyRow(i).month = CalendarMonths[i + 1]

\* a year was selected that has no trade, no capital change and no hook record
C11_Witness ==
  /\ ops > 0
  /\ selectedYear # currentYear
  /\ \A i \in Rows : ~HasRecord(capitalChanges, <<monthOrder[i + 1], selectedYear>>)
  /\ \A i \in Rows : initialMonthlyRow(i).trades = Dash

\* C12: the Trades figure of a month counts the trades closed in it; a trade
\* of the month whose positionStatus is Open is not counted.
C12_TradesCountsClosedOnly ==
  \A i \in Rows :
    LET row == initialMonthlyRow(i)
        closed == SelectSeq(monthTradesOf(row.month),
                            LAMBDA t : t.positionStatus # "Open")
    IN row.trades.kind = "number" => row.trades.val = Len(closed)

\* the record of the store the latest accepted save wrote: the month's
\* existing record when it updated, the record under a new id when it added
TouchedIds ==
  IF last.outcome = "updated"
  THEN {existingChangeOf(last.changes, indexOf(last.month), last.year)[1].id}
  ELSE {capitalChanges[j].id : j \in 1..Len(capitalChanges)}
         \ {last.changes[j].id : j \in 1..Len(last.changes)}

LastWroteRecord == LastIsNetChange /\ last.outcome \in {"updated", "added"}

\* C13: a record that setNetChange created or updated is dated the first day
\* of the edited month of the selected year, and is an XIRR event of that
\* month's row on that day.
C13_EditedChangeDatedFirstOfMonth ==
  LastWroteRecord
    => LET firstDay == NewDate(last.year, indexOf(last.month), 1)
       IN /\ TouchedIds # {}
          /\ \A j \in 1..Len(capitalChanges) :
               capitalChanges[j].id \in TouchedIds
                 => /\ capitalChanges[j].date = <<last.year, indexOf(last.month) + 1, 1>>
                    /\ ParseDate(capitalChanges[j].date) = firstDay
          /\ selectedYear = last.year
               => \E e \in 1..Len(relevantChangesOf(last.row)) :
                    relevantChangesOf(last.row)[e].date = currentDateOf(last.row)

\* a record dated inside its month was updated
C13_Witness ==
  /\ LastWroteRecord
  /\ last.outcome = "updated"
  /\ last.value # 0
  /\ getDate(ParseDate(existingChangeOf(last.changes, indexOf(last.month),
                                        last.year)[1].date)) # 1

\* C17: an accepted setNetChange(m, y, v), v # 0, on a month with a record
\* updates that record in place to |v| with the type of v's sign, keeps the
\* number of records, and moves the (m, y) anchor by v minus the record's old
\* signed value.
C17_UpdateInPlace ==
  (LastIsNetChange /\ last.outcome = "updated" /\ last.value # 0)
    => LET old == existingChangeOf(last.changes, indexOf(last.month), last.year)[1]
       IN /\ Len(capitalChanges) = Len(last.changes)
          /\ \A j \in 1..Len(capitalChanges) :
               IF last.changes[j].id = old.id
               THEN /\ capitalChanges[j].id = old.id
                    /\ capitalChanges[j].amount = Abs(last.value)
                    /\ capitalChanges[j].type =
                         (IF last.value >= 0 THEN "deposit" ELSE "withdrawal")
               ELSE capitalChanges[j] = last.changes[j]
          /\ getPortfolioSize(last.month, last.year) =
               SizeIn(last.sizes, last.month, last.year) + last.value - signedAmount(old)

\* a deposit was turned into a withdrawal
C17_Witness ==
  /\ LastIsNetChange /\ last.outcome = "updated" /\ last.value < 0
  /\ existingChangeOf(last.changes, indexOf(last.month), last.year)[1].type = "deposit"
  /\ existingChangeOf(last.changes, indexOf(last.month), last.year)[1].amount > 0

\* C18: an accepted setNetChange(m, y, v), v # 0, on a month without a record
\* adds exactly one record of that month (|v|, type of v's sign) and raises
\* the (m, y) anchor by v.
C18_AddOneRecord ==
  ( /\ LastNetChangeAccepted /\ last.value # 0
    /\ Len(existingChangeOf(last.changes, indexOf(last.month), last.year)) = 0 )
    => /\ Len(capitalChanges) = Len(last.changes) + 1
       /\ SubSeq(capitalChanges, 1, Len(last.changes)) = last.changes
       /\ LET new == capitalChanges[Len(capitalChanges)]
          IN /\ new.amount = Abs(last.value)
             /\ new.type = (IF last.value >= 0 THEN "deposit" ELSE "withdrawal")
             /\ getMonth(ParseDate(new.date)) = indexOf(last.month)
             /\ getFullYear(ParseDate(new.date)) = last.year
             /\ \A j \in 1..Len(last.changes) : last.changes[j].id # new.id
       /\ getPortfolioSize(last.month, last.year) =
            SizeIn(last.sizes, last.month, last.year) + last.value

\* a withdrawal was entered for a month without a record
C18_Witness ==
  /\ LastNetChangeAccepted /\ last.outcome = "added" /\ last.value < 0
  /\ Len(capitalChanges) = Len(last.changes) + 1

\* what the solver returns for an evaluation that is made
SolverResult(call) ==
  calcXIRR(call.startDate, call.startValue, call.endDate, call.endValue, call.events)

\* C14: every YTD and rolling value reported for display is the solver's
\* decimal rate times 100.
C14_ReportedAsPercentage ==
  \A i \in Rows : \A call \in EvaluationsOf(i) :
    call.called => Reported(call) = 100 * SolverResult(call)

AmountsOf(call) ==
  LET flows == CashFlows(call.startDate, call.startValue, call.endDate,
                         call.endValue, call.events)
  IN {flows[j].amount : j \in 1..Len(flows)}

\* C16: an evaluation whose cash-flow amounts, boundary valuations included,
\* all have the same sign reports 0.
C16_SameSignSeriesIsZero ==
  \A i \in Rows : \A call \in EvaluationsOf(i) :
    call.called
      => LET amounts == AmountsOf(call)
         IN ((\A a \in amounts : a >= 0) \/ (\A a \in amounts : a <= 0))
              => Reported(call) = 0

\* an evaluation with an interim event whose amounts are all negative
C16_Witness ==
  \E i \in Rows : \E call \in EvaluationsOf(i) :
    /\ call.called
    /\ Len(call.events) > 0
    /\ \A a \in AmountsOf(call) : a < 0

\* C19: the YTD evaluation of month m runs from (Jan 1 of y, the opening
\* capital anchor of year y) to (first day of m, the row's finalCapital) over
\* exactly the records dated on or before the first day of m, signed by type.
C19_YtdEvaluation ==
  \A i \in Rows :
    LET call == ytdCallOf(i)
        end == NewDate(selectedYear, i, 1)
    IN call.called
         => /\ call.startDate = NewDate(selectedYear, 0, 1)
            /\ call.startValue = getPortfolioSize("Jan", selectedYear)
            /\ call.endDate = end
            /\ call.endValue = rowFinalCapitalOf(RowMonth(i))
            /\ call.events =
                 Map(SelectSeq(capitalChanges, LAMBDA c : ParseDate(c.date) <= end),
                     LAMBDA c : [date |-> ParseDate(c.date), amount |-> signedAmount(c)])

\* the signed events of the records dated from start on, up to last
EventsBetween(start, end) ==
  Map(SelectSeq(capitalChanges, LAMBDA c : /\ ParseDate(c.date) >= start
                                           /\ ParseDate(c.date) <= end),
      LAMBDA c : [date |-> ParseDate(c.date), amount |-> signedAmount(c)])

\* the day after every date of the model: no record is dated later
EndOfTime == NewDate(currentYear + 2, 0, 1)

RollingBoundaries(i, k, call) ==
  /\ call.called
  /\ call.startDate = NewDate(selectedYear, i - k, 1)
  /\ call.startValue = rowFinalCapitalOf(RowMonth(i - k))
  /\ call.endDate = NewDate(selectedYear, i, 1)
  /\ call.endValue = rowFinalCapitalOf(RowMonth(i))

\* C20 as stated: for m - k >= 0 the rolling evaluation runs from (first day
\* of m-k, L[m-k].finalCapital) to (first day of m, L[m].finalCapital) over
\* the records dated on or after the boundary start.
C20_RollingEvaluation_AsStated ==
  \A i \in Rows : \A k \in Windows :
    i - k >= 0
      => LET call == rollingCallOf(i, k)
         IN /\ RollingBoundaries(i, k, call)
            /\ call.events = EventsBetween(call.startDate, EndOfTime)

\* C20 amended: ... over the records dated on or after the boundary start
\* and on or before the first day of month m.
C20_RollingEvaluation ==
  \A i \in Rows : \A k \in Windows :
    i - k >= 0
      => LET call == rollingCallOf(i, k)
         IN /\ RollingBoundaries(i, k, call)
            /\ call.events = EventsBetween(call.startDate, call.endDate)

\* a rolling evaluation with an interim event while the store also holds a
\* record dated after the evaluation's end
C20_Witness ==
  \E i \in Rows : \E k \in Windows :
    /\ i - k >= 0
    /\ rollingCallOf(i, k).called
    /\ Len(rollingCallOf(i, k).events) > 0
    /\ \E j \in 1..Len(capitalChanges) :
         ParseDate(capitalChanges[j].date) > rollingCallOf(i, k).endDate

\* the aggregate deposits - withdrawals supplied for a month, 0 without one
LegacyNet(month, year) ==
  IF <<month, year>> \in DOMAIN legacyCapital
  THEN legacyCapital[<<month, year>>].deposits - legacyCapital[<<month, year>>].withdrawals
  ELSE 0

\* C21: a month's net added/withdrawn is the sum of +amount per deposit and
\* -amount per withdrawal over the store's records of that month and year,
\* and the supplied aggregate deposits - withdrawals only when the store has
\* no record of that month and year.
C21_NetFromStoreElseAggregate ==
  \A i \in Rows :
    LET month == RowMonth(i)
        own == ChangesIn(capitalChanges, month, selectedYear)
    IN netAddedWithdrawnOf(month) =
         IF Len(own) > 0
         THEN SumSeq(Map(own, LAMBDA c : IF c.type = "deposit" THEN c.amount
                                         ELSE -c.amount))
         ELSE LegacyNet(month, selectedYear)

\* a month that showed its aggregate got a record of another value, and now
\* shows the record
C21_Witness ==
  /\ LastWroteRecord
  /\ last.outcome = "added"
  /\ selectedYear = last.year
  /\ LegacyNet(last.month, last.year) # 0
  /\ last.value # LegacyNet(last.month, last.year)
  /\ netAddedWithdrawnOf(last.month) = last.value

WrittenIds(op, after) ==
  IF op.op # "setNetChange" \/ op.nan \/ op.outcome \notin {"updated", "added"}
  THEN {}
  ELSE IF op.outcome = "updated"
  THEN {existingChangeOf(op.changes, indexOf(op.month), op.year)[1].id}
  ELSE {after[j].id : j \in 1..Len(after)} \ {op.changes[j].id : j \in 1..Len(op.changes)}

\* C23: every record of the store has a non-negative amount and the type
\* deposit or withdrawal, and a record that setNetChange wrote contributes
\* the value v of the last setNetChange that wrote it (+amount as a deposit,
\* -amount as a withdrawal).
C23_WrittenRecordCarriesValue ==
  /\ \A j \in 1..Len(capitalChanges) :
       /\ capitalChanges[j].amount >= 0
       /\ capitalChanges[j].type \in {"deposit", "withdrawal"}
  /\ \A j \in 1..Len(capitalChanges) :
       LET c == capitalChanges[j]
           signed == IF c.type = "deposit" THEN c.amount ELSE -c.amount
       IN IF c.id \in WrittenIds(last, capitalChanges) THEN signed = last.value
          ELSE IF c.id \in WrittenIds(prev, last.changes) THEN signed = prev.value
          ELSE TRUE

\* a deposit that was created is turned into a withdrawal by a second save
C23_Witness ==
  /\ prev.op = "setNetChange" /\ prev.outcome = "added" /\ prev.value > 0
  /\ LastWroteRecord /\ last.outcome = "updated" /\ last.value < 0
  /\ WrittenIds(prev, last.changes) = WrittenIds(last, capitalChanges)
  /\ \E j \in 1..Len(capitalChanges) :
       /\ capitalChanges[j].id \in WrittenIds(last, capitalChanges)
       /\ capitalChanges[j].type = "withdrawal"
       /\ capitalChanges[j].amount = -last.value

\* C24: after an accepted setNetChange(m, y, v) the ledger's net
\* added/withdrawn figure of (m, y) equals v, whatever the records and the
\* aggregate of the month were before.
C24_NetEqualsValue ==
  (LastNetChangeAccepted /\ selectedYear = last.year)
    => netAddedWithdrawnOf(last.month) = last.value

\* the same, for the months that had at most one record and no aggregate
C24_NetEqualsValue_SingleRecord ==
  (/\ LastNetChangeAccepted
   /\ selectedYear = last.year
   /\ Len(ChangesIn(last.changes, last.month, last.year)) <= 1
   /\ LegacyNet(last.month, last.year) = 0)
    => netAddedWithdrawnOf(last.month) = last.value

\* anchor(m, y) - the signed sum of the records of (m, y), over given sizes
\* and a given store
AnchorLessChanges(sizes, changes, month, year) ==
  SizeIn(sizes, month, year)
    - SumSeq(Map(ChangesIn(changes, month, year),
                 LAMBDA c : IF c.type = "deposit" THEN c.amount ELSE -c.amount))

\* C25: setNetChange on a month leaves anchor(m, y) minus the sum of the
\* signed records of (m, y) at the value it had before the call, and so at
\* the value it had before a sequence of such calls.
C25_AnchorTracksChanges ==
  /\ last.op = "setNetChange"
       => AnchorLessChanges(monthlyPortfolioSizes, capitalChanges, last.month, last.year)
            = AnchorLessChanges(last.sizes, last.changes, last.month, last.year)
  /\ (/\ last.op = "setNetChange" /\ prev.op = "setNetChange"
      /\ prev.month = last.month /\ prev.year = last.year)
       => AnchorLessChanges(monthlyPortfolioSizes, capitalChanges, last.month, last.year)
            = AnchorLessChanges(prev.sizes, prev.changes, last.month, last.year)

\* two saves on one month moved its anchor twice
C25_Witness ==
  /\ prev.op = "setNetChange" /\ prev.outcome \in {"updated", "added"}
  /\ LastWroteRecord /\ last.outcome = "updated"
  /\ prev.month = last.month /\ prev.year = last.year
  /\ SizeIn(last.sizes, last.month, last.year) # SizeIn(prev.sizes, last.month, last.year)
  /\ getPortfolioSize(last.month, last.year) # SizeIn(last.sizes, last.month, last.year)

IdsOf(changes) == {changes[j].id : j \in 1..Len(changes)}

RecordOf(changes, id) == CHOOSE c \in {changes[j] : j \in 1..Len(changes)} : c.id = id

InMonth(c, month, year) ==
  getMonth(ParseDate(c.date)) = indexOf(month) /\ getFullYear(ParseDate(c.date)) = year

\* the ids whose record differs between two stores, or is in one only
ChangedIds(before, after) ==
  {id \in IdsOf(before) \cup IdsOf(after) :
     \/ id \notin IdsOf(before)
     \/ id \notin IdsOf(after)
     \/ RecordOf(before, id) # RecordOf(after, id)}

\* C26: setNetChange(m, y, v) adds, changes or deletes no record dated in
\* another month or year, changes at most one record of the store, and
\* writes the anchor of no other (month, year).
C26_OnlyTheEditedMonth ==
  last.op = "setNetChange" =>
    /\ \A id \in ChangedIds(last.changes, capitalChanges) :
         /\ id \in IdsOf(last.changes)
              => InMonth(RecordOf(last.changes, id), last.month, last.year)
         /\ id \in IdsOf(capitalChanges)
              => InMonth(RecordOf(capitalChanges, id), last.month, last.year)
    /\ Cardinality(ChangedIds(last.changes, capitalChanges)) <= 1
    /\ \A k \in (DOMAIN last.sizes \cup DOMAIN monthlyPortfolioSizes)
                  \ {<<last.month, last.year>>} :
         /\ k \in DOMAIN last.sizes
         /\ k \in DOMAIN monthlyPortfolioSizes
         /\ monthlyPortfolioSizes[k] = last.sizes[k]

\* a record was written while the store held a record of the same calendar
\* month of another year and a record of another month, and the sizes held
\* the anchors of another year and of another month
C26_Witness ==
  /\ LastWroteRecord
  /\ Cardinality(ChangedIds(last.changes, capitalChanges)) = 1
  /\ \E j \in 1..Len(last.changes) :
       /\ getMonth(ParseDate(last.changes[j].date)) = indexOf(last.month)
       /\ getFullYear(ParseDate(last.changes[j].date)) # last.year
  /\ \E j \in 1..Len(last.changes) :
       /\ getMonth(ParseDate(last.changes[j].date)) # indexOf(last.month)
       /\ getFullYear(ParseDate(last.changes[j].date)) = last.year
  /\ \E k \in DOMAIN last.sizes : k[1] = last.month /\ k[2] # last.year
  /\ \E k \in DOMAIN last.sizes : k[1] # last.month /\ k[2] = last.year
  /\ getPortfolioSize(last.month, last.year) # SizeIn(last.sizes, last.month, last.year)

\* the net added/withdrawn figure the ledger shows for a month over a given
\* store
NetOver(changes, month, year) ==
  IF Len(ChangesIn(changes, month, year)) > 0
  THEN SumSeq(Map(ChangesIn(changes, month, year),
                  LAMBDA c : IF c.type = "deposit" THEN c.amount ELSE -c.amount))
  ELSE LegacyNet(month, year)

\* the Added/Withdrawn editor is open and holds the value it opened with
EditorUntouched ==
  /\ editingCell # Null
  /\ editingCell.col = "addedWithdrawn"
  /\ editingValue = prefillOf(Null, editingCell, "")

\* C27: saving the Added/Withdrawn editor with the value it opened with
\* leaves the month's net change and the month's anchor as they were, also
\* when the same calendar month of another year has a record.
C27_SaveUntouchedChangesNothing ==
  EditorUntouched =>
    LET month == RowMonth(editingCell.row)
        r == saveAddedWithdrawn(editingCell.row, editingValue)
    IN /\ NetOver(r.changes, month, selectedYear) = netAddedWithdrawnOf(month)
       /\ SizeIn(r.sizes, month, selectedYear) = getPortfolioSize(month, selectedYear)

\* the same, for the months whose calendar month has no hook record of
\* another year
C27_SaveUntouchedChangesNothing_OneYear ==
  (/\ EditorUntouched
   /\ \A y \in Years \ {selectedYear} :
        ~HasRecord(capitalChanges, <<RowMonth(editingCell.row), y>>))
    => LET month == RowMonth(editingCell.row)
           r == saveAddedWithdrawn(editingCell.row, editingValue)
       IN /\ NetOver(r.changes, month, selectedYear) = netAddedWithdrawnOf(month)
          /\ SizeIn(r.sizes, month, selectedYear) = getPortfolioSize(month, selectedYear)

\* C28: leaving the Starting Capital editor of a month that has no stored
\* portfolio size, by blur or Enter and with the value it opened with,
\* leaves the stored portfolio-size entries as they were.
C28_UntouchedStartingCapitalStoresNothing ==
  (/\ last.op = "setStartingCapital"
   /\ ~last.nan
   /\ last.value = last.startingCapital
   /\ <<last.month, last.year>> \notin DOMAIN last.sizes)
    => monthlyPortfolioSizes = last.sizes

\* C29: every record that contributes to a month's net added/withdrawn
\* figure is an interim event of that month's YTD evaluation and of every
\* rolling evaluation made for that month.
C29_NetRecordsAreEvents ==
  \A i \in Rows :
    LET own == ChangesIn(capitalChanges, RowMonth(i), selectedYear)
    IN \A j \in 1..Len(own) : \A call \in EvaluationsOf(i) :
         call.called
           => \E e \in 1..Len(call.events) :
                /\ call.events[e].date = ParseDate(own[j].date)
                /\ call.events[e].amount =
                     (IF own[j].type = "deposit" THEN own[j].amount ELSE -own[j].amount)

\* the same, for the records dated the first day of their month
C29_NetRecordsAreEvents_FirstOfMonth ==
  \A i \in Rows :
    LET own == ChangesIn(capitalChanges, RowMonth(i), selectedYear)
    IN \A j \in 1..Len(own) : \A call \in EvaluationsOf(i) :
         (call.called /\ getDate(ParseDate(own[j].date)) = 1)
           => \E e \in 1..Len(call.events) :
                /\ call.events[e].date = ParseDate(own[j].date)
                /\ call.events[e].amount =
                     (IF own[j].type = "deposit" THEN own[j].amount ELSE -own[j].amount)

\* C30: no XIRR evaluation is made with a boundary start value of 0: the YTD
\* evaluation is made only when the opening anchor of the year is not 0, a
\* rolling evaluation only when the final capital of the month the window
\* starts at is not 0.
C30_NoZeroStartValue ==
  \A i \in Rows : \A call \in EvaluationsOf(i) :
    call.called => call.startValue # 0

====
